---- MODULE Spec2Model ----
(***************************************************************************)
(* The LS-8 emulator of ls8/cpu.py as a state machine: class CPU's fields, *)
(* CPU.load, and one action per opcode handler, each action being one      *)
(* whole pass of the while loop of CPU.run (fetch, decode, operand fetch,  *)
(* dispatch, handler, PC advance, PC clamp).                               *)
(*                                                                         *)
(* Python integers are unbounded, so registers, memory cells and PC are    *)
(* unbounded integers here; list indexing follows Python (an index in      *)
(* -len..-1 counts from the end, anything else outside 0..len-1 raises     *)
(* IndexError), and an uncaught exception ends the run where it is raised, *)
(* keeping the assignments made before it.                                 *)
(***************************************************************************)
EXTENDS Integers, Sequences, FiniteSets, TLC

VARIABLES reg, ram, pc, ir, fl, running, out, exc, phase, hist, cmpv, calls, rawpc

vars == <<reg, ram, pc, ir, fl, running, out, exc, phase, hist, cmpv, calls, rawpc>>

(***************************************************************************)
(* Opcodes (cpu.py lines 6-31), in decimal.                                *)
(***************************************************************************)
_hlt == 1
_ld == 131
_ldi == 130
_nop == 0
_pop == 70
_prn == 71
_push == 69
_call == 80
_jeq == 85
_jge == 90
_jgt == 87
_jlt == 88
_jle == 89
_jmp == 84
_jne == 86
_ret == 17
_add == 160
_and == 168
_cmp == 167
_dec == 102
_inc == 101
_mul == 162

NumRegs == 8
RamSize == 256
SP == 7
InitialSP == 244

(***************************************************************************)
(* Bounds of the model.                                                    *)
(***************************************************************************)
\* The history of pending CALLs keeps this many entries (the newest).
MaxCalls == 2
\* The history of executed cycles keeps this many entries (the newest).
MaxHist == 2

(***************************************************************************)
(* Python's integer operators.                                             *)
(***************************************************************************)
RECURSIVE BitAnd(_, _)
\* a & b on unbounded two's-complement integers
BitAnd(a, b) ==
    IF a = 0 \/ b = 0 THEN 0
    ELSE IF a = -1 THEN b
    ELSE IF b = -1 THEN a
    ELSE (a % 2) * (b % 2) + 2 * BitAnd(a \div 2, b \div 2)

\* a | b
BitOr(a, b) == a + b - BitAnd(a, b)

\* a >> k (arithmetic: floor division by 2^k)
ShiftRight(a, k) == a \div (2 ^ k)

\* Python list indexing: the position list[i] denotes in a list of length n.
IndexOK(i, n) == i \in (0 - n)..(n - 1)
Index(i, n) == IF i < 0 THEN i + n ELSE i

(***************************************************************************)
(* A machine value m holds the fields the handlers read and write; exc is  *)
(* the exception that ended the run ("" while none was raised).            *)
(***************************************************************************)
Raise(m, e) == [m EXCEPT !.exc = e]

\* self.reg[r] as an expression
RegOK(r) == IndexOK(r, NumRegs)
RegGet(m, r) == m.reg[Index(r, NumRegs)]
\* self.reg[r] = v
RegSet(m, r, v) == [m EXCEPT !.reg[Index(r, NumRegs)] = v]

\* ram_read / ram_write: self.ram[address]
RamOK(address) == IndexOK(address, RamSize)
ram_read(m, address) == m.ram[Index(address, RamSize)]
ram_write(m, address, value) == [m EXCEPT !.ram[Index(address, RamSize)] = value]

\* handle_overflow saturating instead of wrapping
handle_overflow_saturating(m, r) ==
    IF ~RegOK(r) THEN Raise(m, "IndexError")
    ELSE LET v  == RegGet(m, r)
             v1 == IF v >= 0 THEN v ELSE 0
             v2 == IF v1 <= 255 THEN v1 ELSE 255
         IN  RegSet(m, r, v2)

\* handle_overflow(r): r indexes the register file
handle_overflow(m, r) ==
    IF ~RegOK(r) THEN Raise(m, "IndexError")
    ELSE LET v  == RegGet(m, r)
             v1 == IF v >= 0 THEN v ELSE 255
             v2 == IF v1 <= 255 THEN v1 ELSE 0
         IN  RegSet(m, r, v2)

(***************************************************************************)
(* Opcode implementations (cpu.py lines 194-305).  Each takes the machine  *)
(* value and the decoded operands and gives the machine value the handler  *)
(* leaves, in the order in which Python evaluates and assigns.             *)
(***************************************************************************)
\* CPU_hlt also resetting the program counter
CPU_hlt_resets_pc(m) == [m EXCEPT !.running = FALSE, !.pc = 0]

CPU_hlt(m) == [m EXCEPT !.running = FALSE]

\* self.reg[ra] = self.ram_read(self.reg[rb])
CPU_ld(m, ra, rb) ==
    IF ~RegOK(rb) THEN Raise(m, "IndexError")
    ELSE IF ~RamOK(RegGet(m, rb)) THEN Raise(m, "IndexError")
    ELSE IF ~RegOK(ra) THEN Raise(m, "IndexError")
    ELSE RegSet(m, ra, ram_read(m, RegGet(m, rb)))

\* self.reg[r] = i
CPU_ldi(m, r, i) ==
    IF ~RegOK(r) THEN Raise(m, "IndexError") ELSE RegSet(m, r, i)

CPU_nop(m) == m

CPU_pop(m, r) ==
    IF ~RamOK(RegGet(m, SP)) THEN Raise(m, "IndexError")
    ELSE IF ~RegOK(r) THEN Raise(m, "IndexError")
    ELSE LET m1 == RegSet(m, r, ram_read(m, RegGet(m, SP)))
             m2 == RegSet(m1, SP, RegGet(m1, SP) + 1)
         IN  handle_overflow(m2, SP)

\* CPU_prn printing the register's index
CPU_prn_prints_index(m, r) ==
    IF ~RegOK(r) THEN Raise(m, "IndexError")
    ELSE [m EXCEPT !.out = Append(@, r)]

\* print(self.reg[r])
CPU_prn(m, r) ==
    IF ~RegOK(r) THEN Raise(m, "IndexError")
    ELSE [m EXCEPT !.out = Append(@, RegGet(m, r))]

\* CPU_push writing the slot before it moves SP
CPU_push_write_first(m, r) ==
    IF ~RegOK(r) \/ ~RamOK(RegGet(m, SP)) THEN Raise(m, "IndexError")
    ELSE LET m1 == ram_write(m, RegGet(m, SP), RegGet(m, r))
             m2 == RegSet(m1, SP, RegGet(m1, SP) - 1)
         IN  handle_overflow(m2, SP)

CPU_push(m, r) ==
    LET m1 == RegSet(m, SP, RegGet(m, SP) - 1)
        m2 == handle_overflow(m1, SP)
    IN  IF ~RegOK(r) THEN Raise(m2, "IndexError")
        ELSE IF ~RamOK(RegGet(m2, SP)) THEN Raise(m2, "IndexError")
        ELSE ram_write(m2, RegGet(m2, SP), RegGet(m2, r))

\* CPU_call saving the address of its own operand
CPU_call_saves_operand_address(m, r) ==
    LET m1 == RegSet(m, SP, RegGet(m, SP) - 1)
        m2 == handle_overflow(m1, SP)
    IN  IF ~RamOK(RegGet(m2, SP)) THEN Raise(m2, "IndexError")
        ELSE LET m3 == ram_write(m2, RegGet(m2, SP), m2.pc + 1)
             IN  IF ~RegOK(r) THEN Raise(m3, "IndexError")
                 ELSE [m3 EXCEPT !.pc = RegGet(m3, r)]

CPU_call(m, r) ==
    LET m1 == RegSet(m, SP, RegGet(m, SP) - 1)
        m2 == handle_overflow(m1, SP)
    IN  IF ~RamOK(RegGet(m2, SP)) THEN Raise(m2, "IndexError")
        ELSE LET m3 == ram_write(m2, RegGet(m2, SP), m2.pc + 2)
             IN  IF ~RegOK(r) THEN Raise(m3, "IndexError")
                 ELSE [m3 EXCEPT !.pc = RegGet(m3, r)]

\* self.pc = self.reg[r]
JumpTo(m, r) ==
    IF ~RegOK(r) THEN Raise(m, "IndexError") ELSE [m EXCEPT !.pc = RegGet(m, r)]

\* a failed jump skipping three bytes
FallThrough_three_bytes(m) == [m EXCEPT !.pc = @ + 3]

\* self.pc += 2
FallThrough(m) == [m EXCEPT !.pc = @ + 2]

CPU_jeq(m, r) == IF BitAnd(m.fl, 1) # 0 THEN JumpTo(m, r) ELSE FallThrough(m)

\* CPU_jge testing the Greater-than bit alone
CPU_jge_greater_only(m, r) == IF BitAnd(m.fl, 2) # 0 THEN JumpTo(m, r) ELSE FallThrough(m)

CPU_jge(m, r) == IF BitAnd(m.fl, 3) # 0 THEN JumpTo(m, r) ELSE FallThrough(m)

CPU_jgt(m, r) == IF BitAnd(m.fl, 2) # 0 THEN JumpTo(m, r) ELSE FallThrough(m)

CPU_jle(m, r) == IF BitAnd(m.fl, 5) # 0 THEN JumpTo(m, r) ELSE FallThrough(m)

CPU_jlt(m, r) == IF BitAnd(m.fl, 4) # 0 THEN JumpTo(m, r) ELSE FallThrough(m)

CPU_jmp(m, r) == JumpTo(m, r)

CPU_jne(m, r) == IF BitAnd(m.fl, 1) # 0 THEN FallThrough(m) ELSE JumpTo(m, r)

CPU_ret(m) ==
    IF ~RamOK(RegGet(m, SP)) THEN Raise(m, "IndexError")
    ELSE LET m1 == [m EXCEPT !.pc = ram_read(m, RegGet(m, SP))]
             m2 == RegSet(m1, SP, RegGet(m1, SP) + 1)
         IN  handle_overflow(m2, SP)

\* CPU_add keeping the low eight bits of the sum
CPU_add_masked(m, ra, rb) ==
    IF ~RegOK(ra) \/ ~RegOK(rb) THEN Raise(m, "IndexError")
    ELSE RegSet(m, ra, (RegGet(m, ra) + RegGet(m, rb)) % 256)

\* self.reg[ra] += self.reg[rb]
CPU_add(m, ra, rb) ==
    IF ~RegOK(ra) \/ ~RegOK(rb) THEN Raise(m, "IndexError")
    ELSE RegSet(m, ra, RegGet(m, ra) + RegGet(m, rb))

\* CPU_and also setting the Equal flag when the result is 0
CPU_and_sets_zero_flag(m, ra, rb) ==
    IF ~RegOK(ra) \/ ~RegOK(rb) THEN Raise(m, "IndexError")
    ELSE LET v == BitAnd(RegGet(m, ra), RegGet(m, rb))
         IN  [RegSet(m, ra, v) EXCEPT !.fl = IF v = 0 THEN 1 ELSE m.fl]

\* self.reg[ra] &= self.reg[rb]
CPU_and(m, ra, rb) ==
    IF ~RegOK(ra) \/ ~RegOK(rb) THEN Raise(m, "IndexError")
    ELSE RegSet(m, ra, BitAnd(RegGet(m, ra), RegGet(m, rb)))

\* CPU_cmp without the clearing of the three flag bits
CPU_cmp_keeps_old_flags(m, ra, rb) ==
    IF ~RegOK(ra) \/ ~RegOK(rb) THEN Raise(m, "IndexError")
    ELSE IF RegGet(m, ra) = RegGet(m, rb) THEN [m EXCEPT !.fl = BitOr(@, 1)]
    ELSE IF RegGet(m, ra) < RegGet(m, rb) THEN [m EXCEPT !.fl = BitOr(@, 4)]
    ELSE [m EXCEPT !.fl = BitOr(@, 2)]

CPU_cmp(m, ra, rb) ==
    LET m1 == [m EXCEPT !.fl = BitAnd(@, 248)]
    IN  IF ~RegOK(ra) \/ ~RegOK(rb) THEN Raise(m1, "IndexError")
        ELSE IF RegGet(m1, ra) = RegGet(m1, rb) THEN [m1 EXCEPT !.fl = BitOr(@, 1)]
        ELSE IF RegGet(m1, ra) < RegGet(m1, rb) THEN [m1 EXCEPT !.fl = BitOr(@, 4)]
        ELSE IF RegGet(m1, ra) > RegGet(m1, rb) THEN [m1 EXCEPT !.fl = BitOr(@, 2)]
        ELSE m1

\* self.reg[ra] -= 1 ; self.handle_overflow(self.reg[ra])
CPU_dec(m, ra) ==
    IF ~RegOK(ra) THEN Raise(m, "IndexError")
    ELSE LET m1 == RegSet(m, ra, RegGet(m, ra) - 1)
         IN  handle_overflow(m1, RegGet(m1, ra))

\* self.reg[ra] += 1 ; self.handle_overflow(self.reg[ra])
CPU_inc(m, ra) ==
    IF ~RegOK(ra) THEN Raise(m, "IndexError")
    ELSE LET m1 == RegSet(m, ra, RegGet(m, ra) + 1)
         IN  handle_overflow(m1, RegGet(m1, ra))

\* self.reg[ra] *= self.reg[rb]
CPU_mul(m, ra, rb) ==
    IF ~RegOK(ra) \/ ~RegOK(rb) THEN Raise(m, "IndexError")
    ELSE RegSet(m, ra, RegGet(m, ra) * RegGet(m, rb))

(***************************************************************************)
(* The dispatch table built by CPU.__init__ and its use in CPU.run.        *)
(***************************************************************************)
\* the table with NOP registered to the HLT handler
op_table_nop_halts ==
    (_hlt :> "_hlt") @@ (_ld :> "_ld") @@ (_ldi :> "_ldi") @@ (_nop :> "_hlt") @@
    (_pop :> "_pop") @@ (_prn :> "_prn") @@ (_push :> "_push") @@
    (_call :> "_call") @@ (_jeq :> "_jeq") @@ (_jge :> "_jge") @@
    (_jgt :> "_jgt") @@ (_jle :> "_jle") @@ (_jlt :> "_jlt") @@
    (_jmp :> "_jmp") @@ (_jne :> "_jne") @@ (_ret :> "_ret") @@
    (_add :> "_add") @@ (_and :> "_and") @@ (_cmp :> "_cmp") @@
    (_dec :> "_dec") @@ (_inc :> "_inc") @@ (_mul :> "_mul")

op_table ==
    (_hlt :> "_hlt") @@ (_ld :> "_ld") @@ (_ldi :> "_ldi") @@ (_nop :> "_nop") @@
    (_pop :> "_pop") @@ (_prn :> "_prn") @@ (_push :> "_push") @@
    (_call :> "_call") @@ (_jeq :> "_jeq") @@ (_jge :> "_jge") @@
    (_jgt :> "_jgt") @@ (_jle :> "_jle") @@ (_jlt :> "_jlt") @@
    (_jmp :> "_jmp") @@ (_jne :> "_jne") @@ (_ret :> "_ret") @@
    (_add :> "_add") @@ (_and :> "_and") @@ (_cmp :> "_cmp") @@
    (_dec :> "_dec") @@ (_inc :> "_inc") @@ (_mul :> "_mul")

\* a lookup that falls back to NOP
Lookup_default_nop(b) == IF b \in DOMAIN op_table THEN op_table[b] ELSE "_nop"

\* self.op_table[self.ir]: the handler's name, or the KeyError of a missing key
Lookup(b) == IF b \in DOMAIN op_table THEN op_table[b] ELSE "KeyError"

(***************************************************************************)
(* Decoding (cpu.py lines 154-160) and the PC update (lines 166-170).      *)
(***************************************************************************)
\* operands = self.ir >> 6
Operands(b) == ShiftRight(b, 6)

\* sets_pc = (self.ir & 0x10) >> 4
SetsPC(b) == ShiftRight(BitAnd(b, 16), 4)

\* range(operands): no operand when the count is not positive
NArgs(b) == IF Operands(b) > 0 THEN Operands(b) ELSE 0

\* every self.ram_read(self.pc + i + 1) of the operand fetch is in range
ArgsOK(p, b) == \A i \in 1..NArgs(b) : RamOK(p + i)

\* the clamp without its lower bound
ClampPC_upper_only(p) == IF p <= 255 THEN p ELSE 0

\* the clamp stopping at 255 instead of wrapping to 0
ClampPC_saturating(p) ==
    LET p1 == IF p >= 0 THEN p ELSE 255
    IN  IF p1 <= 255 THEN p1 ELSE 255

ClampPC(p) ==
    LET p1 == IF p >= 0 THEN p ELSE 255
    IN  IF p1 <= 255 THEN p1 ELSE 0

\* the PC update without the exemption of HLT
Advance_past_hlt(m, b, nargs) ==
    [m EXCEPT !.pc = ClampPC(m.pc + (IF SetsPC(b) # 0 THEN 0 ELSE 1 + nargs))]

\* lines 166-167: self.pc after the handler returned, before the clamp
AdvancePC(m, b, nargs) ==
    IF b # _hlt
    THEN m.pc + (IF SetsPC(b) # 0 THEN 0 ELSE 1 + nargs)
    ELSE m.pc

\* lines 166-170, after the handler returned
Advance(m, b, nargs) == [m EXCEPT !.pc = ClampPC(AdvancePC(m, b, nargs))]

(***************************************************************************)
(* Programs.  A program is the list of bytes CPU.load writes from address  *)
(* 0 on; the file format gives every byte a value in 0..255.               *)
(***************************************************************************)
I_HLT == <<_hlt>>
I_NOP == <<_nop>>
I_RET == <<_ret>>
I_LDI(r, i) == <<_ldi, r, i>>
I_LD(ra, rb) == <<_ld, ra, rb>>
I_PRN(r) == <<_prn, r>>
I_PUSH(r) == <<_push, r>>
I_POP(r) == <<_pop, r>>
I_CALL(r) == <<_call, r>>
I_JMP(r) == <<_jmp, r>>
I_JNE(r) == <<_jne, r>>
I_INC(r) == <<_inc, r>>
I_DEC(r) == <<_dec, r>>
I_ADD(ra, rb) == <<_add, ra, rb>>
I_MUL(ra, rb) == <<_mul, ra, rb>>
I_AND(ra, rb) == <<_and, ra, rb>>
I_CMP(ra, rb) == <<_cmp, ra, rb>>
\* a one-operand instruction of opcode op
I_1(op, r) == <<op, r>>
\* a two-operand instruction of opcode op
I_2(op, ra, rb) == <<op, ra, rb>>

\* p continued with bytes at address addr (the gap is left 0, which reads NOP)
At(p, addr, bytes) == p \o [i \in 1..(addr - Len(p)) |-> 0] \o bytes

\* the hardcoded program of CPU.load (print8.ls8)
Fallback == <<130, 0, 8, 71, 0, 1>>

Regs == 0..(NumRegs - 1)
Vals == {0, 5, 255}
StackTops == {0, 1, 9, 10, InitialSP, 255}
CondJumps == {_jeq, _jne, _jgt, _jlt, _jge, _jle}

\* set SP, load r, PUSH r, POP r2, print r2
P_PushPop ==
    { I_LDI(SP, s) \o I_LDI(r, v) \o I_PUSH(r) \o I_POP(r2) \o I_PRN(r2) \o I_HLT :
        s \in StackTops, r \in Regs, v \in Vals, r2 \in Regs }

\* load r, then INC r; DEC r or DEC r; INC r, print r
P_IncDec ==
    { I_LDI(r, v) \o I_1(o[1], r) \o I_1(o[2], r) \o I_PRN(r) \o I_HLT :
        r \in Regs, v \in {0, 1, 5, 6, 7, 8, 254, 255},
        o \in {<<_inc, _dec>>, <<_dec, _inc>>} }

\* INC or DEC of a register while another register holds a value above 255,
\* and DEC repeated below zero
P_IncDecOther ==
    { I_LDI(6, 200) \o I_ADD(6, 6) \o I_LDI(0, v) \o I_1(o, 0) \o I_PRN(6) \o I_HLT :
        v \in {0, 5, 6}, o \in {_inc, _dec} }
    \cup { I_LDI(0, 1) \o I_DEC(0) \o I_DEC(0) \o I_DEC(0) \o I_DEC(0) \o I_DEC(0)
           \o I_DEC(0) \o I_DEC(0) \o I_DEC(0) \o I_DEC(0) \o I_DEC(0) \o I_DEC(0)
           \o I_HLT }

\* CMP a,b, an instruction in between, a conditional jump; R2 holds the target
P_CmpJump ==
    { At(I_LDI(0, x) \o I_LDI(1, y) \o I_LDI(2, 32) \o I_CMP(a, b) \o mid
         \o I_1(j, 2) \o I_HLT, 32, I_PRN(1) \o I_HLT) :
        x \in {0, 1, 255}, y \in {0, 1, 255}, a \in {0, 1}, b \in {0, 1},
        j \in CondJumps, mid \in {<<>>, I_NOP, I_ADD(0, 1)} }

\* CMP 0,1 and two conditional jumps in a row; the first targets the second
P_CmpJumpJump ==
    { At(I_LDI(0, x) \o I_LDI(1, y) \o I_LDI(2, 32) \o I_LDI(3, 17) \o I_CMP(0, 1)
         \o I_1(j1, 3) \o I_1(j2, 2) \o I_HLT, 32, I_PRN(1) \o I_HLT) :
        x \in {0, 1}, y \in {0, 1}, j1 \in CondJumps, j2 \in CondJumps }

\* a conditional jump before any CMP
P_JumpOnly ==
    { At(I_LDI(2, 32) \o I_1(j, 2) \o I_HLT, 32, I_PRN(2) \o I_HLT) : j \in CondJumps }

\* subroutine bodies, each ending in RET
SubBodies ==
    { I_RET,
      I_PUSH(2) \o I_POP(3) \o I_RET,
      I_LDI(4, 12) \o I_POP(3) \o I_PUSH(4) \o I_RET,
      I_LDI(5, 30) \o I_CALL(5) \o I_RET }

\* set SP, jump to address a, CALL the subroutine at 16 from there; HLT at 12
\* and after the CALL, a second subroutine (RET alone) at 30
P_Call ==
    { At(At(At(At(I_LDI(SP, s) \o I_LDI(0, 16) \o I_LDI(1, a) \o I_JMP(1) \o I_NOP \o I_HLT,
                  16, body), 30, I_RET), a,
               IF a + 1 < RamSize THEN I_CALL(0) ELSE <<_call>>),
            IF a + 2 < RamSize THEN a + 2 ELSE RamSize,
            IF a + 2 < RamSize THEN I_HLT ELSE <<>>) :
        s \in {InitialSP, 0, 1}, a \in {40, 253, 254, 255}, body \in SubBodies }

\* LDI r,i then PRN r
P_LdiPrn == { I_LDI(r, i) \o I_PRN(r) \o I_HLT : r \in Regs, i \in {0, 8, 255} }

\* PRN r at address 0 and LDI r,i in the last three cells: the first pass
\* jumps to the LDI, the second pass ends at the HLT at 24
P_Wrap ==
    { At(At(I_PRN(r) \o I_CMP(4, 5) \o I_JNE(6) \o I_LDI(4, 1) \o I_LDI(6, 24)
            \o I_LDI(1, 253) \o I_JMP(1), 24, I_HLT), 253, I_LDI(r, i)) :
        r \in {0, 3, 7}, i \in {7, 255} }

\* bytes that are no opcode
UnknownBytes == {2, 16, 79, 192, 255}
P_Unknown ==
    { <<b>> : b \in UnknownBytes } \cup { I_LDI(0, 8) \o <<b>> \o I_HLT : b \in UnknownBytes }
    \cup { At(I_LDI(1, a) \o I_JMP(1), a, <<b>>) : a \in {254, 255}, b \in {79, 192, _ldi, _inc} }

\* programs without HLT
P_NoHlt == { <<>>, I_LDI(0, 8) \o I_INC(0), I_LDI(0, 8) \o <<255>>, I_LDI(0, 0) \o I_JMP(0) }

\* LDI R0,x; LDI R1,y; a two-operand instruction; print R0
P_Alu ==
    { I_LDI(0, x) \o I_LDI(1, y) \o I_2(o, ra, rb) \o I_PRN(0) \o I_HLT :
        x \in {0, 1, 5, 255}, y \in {0, 1, 5, 255},
        o \in {_add, _mul, _and, _cmp, _ld}, ra \in {0}, rb \in {0, 1} }

\* stack operations with SP above 255
P_BadSP ==
    { I_LDI(SP, 200) \o I_ADD(SP, SP) \o i \o I_HLT :
        i \in {I_POP(0), I_PUSH(0), I_RET, I_CALL(0)} }

\* a prologue that falls through on the first pass and jumps to the HLT at 40
\* on the second (R4 is 0 on the first pass only)
TwoPass == I_CMP(4, 5) \o I_1(_jne, 6) \o I_LDI(4, 1) \o I_LDI(6, 40)

\* R0 made 510 by ADD, or -1 by DEC
WildValues == { I_LDI(0, 255) \o I_ADD(0, 0), I_LDI(0, 0) \o I_DEC(0) }

\* JMP, CALL, a taken JEQ and RET with a target outside 0..255; HLT at 40 and
\* at 255
P_WildJump ==
    { At(At(TwoPass \o w \o j, 40, I_HLT), 255, I_HLT) :
        w \in WildValues,
        j \in { I_JMP(0), I_CALL(0), I_CMP(1, 1) \o I_1(_jeq, 0), I_PUSH(0) \o I_RET } }

\* an instruction in the last cells of memory, reached by JMP
P_Edge ==
    { At(At(TwoPass \o I_LDI(1, e[1]) \o I_JMP(1), 40, I_HLT), e[1], e[2]) :
        e \in { <<255, I_NOP>>, <<254, I_PUSH(0)>>, <<254, I_POP(0)>>,
                <<254, I_1(_jne, 2)>>, <<254, I_1(_jeq, 6)>>, <<253, I_ADD(0, 1)>>,
                <<253, I_CMP(0, 1)>>, <<254, <<_add, 0>> >>, <<255, <<_push>> >>,
                <<255, <<_jne>> >>, <<255, I_RET>> } }

\* operands that are no register index
P_BadReg ==
    { I_LDI(0, x) \o I_CMP(0, 1) \o i \o I_HLT :
        x \in {0, 1},
        i \in { I_CMP(8, 0), I_CMP(0, 9), I_ADD(8, 0), I_LDI(9, 1), I_JMP(8), I_PUSH(8) } }
    \cup { I_CMP(8, 0) \o I_HLT }

\* values outside 0..255 pushed, and used as the address LD reads
P_Mem ==
    { w \o i \o I_HLT : w \in WildValues, i \in { I_PUSH(0), I_LD(1, 0), I_PUSH(0) \o I_POP(2) } }

\* ADD, MUL and AND on values above 255 and into register 7
P_Alu2 ==
    { I_LDI(0, x) \o I_LDI(1, y) \o I_ADD(0, 1) \o I_2(o, d[1], d[2]) \o I_PRN(0) \o I_HLT :
        x \in {5, 255}, y \in {3, 255}, o \in {_add, _mul, _and},
        d \in { <<0, 0>>, <<0, 1>>, <<1, 0>>, <<SP, 0>> } }

\* every kind of instruction run while a flag is set; RET at 30
P_Flags ==
    { At(I_LDI(0, 1) \o I_CMP(c[1], c[2]) \o i \o I_HLT, 30, I_RET) :
        c \in { <<0, 0>>, <<0, 1>>, <<1, 0>> },
        i \in { I_MUL(2, 0), I_AND(2, 0), I_INC(2), I_DEC(0), I_PUSH(0) \o I_POP(2),
                I_LD(2, 0), I_LDI(2, 7), I_PRN(0), I_NOP,
                I_LDI(2, 30) \o I_CALL(2), I_LDI(2, 20) \o I_JMP(2) } }

\* CALL through register 7 itself; HLT at the target
P_CallSP == { At(I_CALL(SP), 243, I_HLT) }

Programs ==
    P_PushPop \cup P_IncDec \cup P_IncDecOther \cup P_CmpJump \cup P_CmpJumpJump
    \cup P_JumpOnly \cup P_Call \cup P_LdiPrn \cup P_Wrap \cup P_Unknown
    \cup P_NoHlt \cup P_Alu \cup P_BadSP
    \cup P_WildJump \cup P_Edge \cup P_BadReg \cup P_Mem \cup P_Alu2 \cup P_Flags
    \cup P_CallSP

(***************************************************************************)
(* The state after CPU.__init__.                                           *)
(***************************************************************************)
Init ==
    /\ reg = [i \in 0..(NumRegs - 1) |-> IF i = SP THEN InitialSP ELSE 0]
    /\ ram = [a \in 0..(RamSize - 1) |-> 0]
    /\ pc = 0
    /\ ir = 0
    /\ fl = 0
    /\ running = FALSE
    /\ out = <<>>
    /\ exc = ""
    /\ phase = "constructed"
    /\ hist = <<>>
    /\ cmpv = <<>>
    /\ calls = <<>>
    /\ rawpc = 0

\* the loop of CPU.load writing program from address 0 on
Store(program) ==
    /\ ram' = [a \in 0..(RamSize - 1) |->
                 IF a < Len(program) THEN program[a + 1] ELSE ram[a]]
    /\ phase' = "loaded"
    /\ UNCHANGED <<reg, pc, ir, fl, running, out, exc, hist, cmpv, calls, rawpc>>

\* CPU.load: the hardcoded program, or the bytes of the file named on the
\* command line
Load ==
    /\ phase = "constructed"
    /\ \/ Store(Fallback)
       \/ \E program \in Programs : Len(program) <= RamSize /\ Store(program)

\* CPU.run up to the loop: self.running = True
Run ==
    /\ phase = "loaded"
    /\ running' = TRUE
    /\ phase' = "loop"
    /\ UNCHANGED <<reg, ram, pc, ir, fl, out, exc, hist, cmpv, calls, rawpc>>

(***************************************************************************)
(* History kept beside the machine: the newest MaxHist cycles (the handler *)
(* dispatched and the PC, operands, registers, memory, flags, output and   *)
(* pending CALLs at the top of the cycle), the two values the last CMP     *)
(* compared, the CALLs not yet returned from (the CALL's address, the      *)
(* stack slot holding its return address, and whether that slot was        *)
(* written since), and rawpc, the value self.pc held in the last cycle     *)
(* before the clamp of lines 169-170.                                      *)
(***************************************************************************)
\* the machine as the cycle finds it
Machine ==
    [reg |-> reg, ram |-> ram, pc |-> pc, fl |-> fl,
     running |-> running, out |-> out, exc |-> ""]

\* self.ir = self.ram_read(self.pc)
Fetched == ram[Index(pc, RamSize)]

\* args[i - 1] = self.ram_read(self.pc + i)
Arg(i) == ram[Index(pc + i, RamSize)]

Args == [i \in 1..NArgs(Fetched) |-> Arg(i)]

Keep(s, n) == IF Len(s) <= n THEN s ELSE SubSeq(s, 1, n)

HistEntry(h, args) ==
    [h |-> h, pc |-> pc, args |-> args, reg |-> reg, ram |-> ram, fl |-> fl,
     out |-> out, calls |-> calls]

Spoil(cs, slot) ==
    [i \in 1..Len(cs) |-> IF cs[i].slot = slot THEN [cs[i] EXCEPT !.ok = FALSE] ELSE cs[i]]

TrackCalls(h, m1) ==
    IF h = "_call" /\ RamOK(RegGet(m1, SP))
    THEN Keep(<<[a |-> pc, slot |-> RegGet(m1, SP), ok |-> TRUE]>>
              \o Spoil(calls, RegGet(m1, SP)), MaxCalls)
    ELSE IF h = "_push" /\ m1.exc = "" THEN Spoil(calls, RegGet(m1, SP))
    ELSE IF h = "_ret" /\ m1.exc = "" /\ calls # <<>> THEN Tail(calls)
    ELSE calls

TrackCmp(h, m1) ==
    IF h = "_cmp" /\ m1.exc = ""
    THEN <<RegGet(Machine, Arg(1)), RegGet(Machine, Arg(2))>>
    ELSE cmpv

(***************************************************************************)
(* One pass of the while loop of CPU.run whose fetched byte dispatches to  *)
(* handler h ("KeyError": to none).                                        *)
(***************************************************************************)
\* while self.running, the operands of the byte at PC are fetched and the byte
\* looks up h
Dispatches(h) ==
    /\ phase = "loop"
    /\ ArgsOK(pc, Fetched)
    /\ Lookup(Fetched) = h

\* the rest of the cycle, handler h having left the machine value m1
Cycle(h, m1) ==
    \E m2 \in {IF m1.exc # "" THEN m1 ELSE Advance(m1, Fetched, NArgs(Fetched))} :
        /\ ir' = Fetched
        /\ reg' = m2.reg
        /\ ram' = m2.ram
        /\ pc' = m2.pc
        /\ fl' = m2.fl
        /\ running' = m2.running
        /\ out' = m2.out
        /\ exc' = m2.exc
        /\ phase' = IF m2.exc # "" THEN "raised"
                    ELSE IF m2.running THEN "loop" ELSE "exited"
        /\ hist' = Keep(<<HistEntry(h, Args)>> \o hist, MaxHist)
        /\ cmpv' = TrackCmp(h, m1)
        /\ calls' = TrackCalls(h, m1)
        /\ rawpc' = IF m1.exc # "" THEN m1.pc
                    ELSE AdvancePC(m1, Fetched, NArgs(Fetched))

\* the operand fetch of line 160 reads past the end of memory
OperandFault ==
    /\ phase = "loop"
    /\ ~ArgsOK(pc, Fetched)
    /\ ir' = Fetched
    /\ exc' = "IndexError"
    /\ phase' = "raised"
    /\ hist' = Keep(<<HistEntry("operands", <<>>)>> \o hist, MaxHist)
    /\ UNCHANGED <<reg, ram, pc, fl, running, out, cmpv, calls, rawpc>>

\* self.op_table[self.ir] has no such key
UnknownOpcode == Dispatches("KeyError") /\ Cycle("KeyError", Raise(Machine, "KeyError"))

Hlt == Dispatches("_hlt") /\ Cycle("_hlt", CPU_hlt(Machine))
Ld == Dispatches("_ld") /\ Cycle("_ld", CPU_ld(Machine, Arg(1), Arg(2)))
Ldi == Dispatches("_ldi") /\ Cycle("_ldi", CPU_ldi(Machine, Arg(1), Arg(2)))
Nop == Dispatches("_nop") /\ Cycle("_nop", CPU_nop(Machine))
Pop == Dispatches("_pop") /\ Cycle("_pop", CPU_pop(Machine, Arg(1)))
Prn == Dispatches("_prn") /\ Cycle("_prn", CPU_prn(Machine, Arg(1)))
Push == Dispatches("_push") /\ Cycle("_push", CPU_push(Machine, Arg(1)))
Call_ == Dispatches("_call") /\ Cycle("_call", CPU_call(Machine, Arg(1)))
Jeq == Dispatches("_jeq") /\ Cycle("_jeq", CPU_jeq(Machine, Arg(1)))
Jge == Dispatches("_jge") /\ Cycle("_jge", CPU_jge(Machine, Arg(1)))
Jgt == Dispatches("_jgt") /\ Cycle("_jgt", CPU_jgt(Machine, Arg(1)))
Jle == Dispatches("_jle") /\ Cycle("_jle", CPU_jle(Machine, Arg(1)))
Jlt == Dispatches("_jlt") /\ Cycle("_jlt", CPU_jlt(Machine, Arg(1)))
Jmp == Dispatches("_jmp") /\ Cycle("_jmp", CPU_jmp(Machine, Arg(1)))
Jne == Dispatches("_jne") /\ Cycle("_jne", CPU_jne(Machine, Arg(1)))
Ret == Dispatches("_ret") /\ Cycle("_ret", CPU_ret(Machine))
Add == Dispatches("_add") /\ Cycle("_add", CPU_add(Machine, Arg(1), Arg(2)))
And == Dispatches("_and") /\ Cycle("_and", CPU_and(Machine, Arg(1), Arg(2)))
Cmp == Dispatches("_cmp") /\ Cycle("_cmp", CPU_cmp(Machine, Arg(1), Arg(2)))
Dec == Dispatches("_dec") /\ Cycle("_dec", CPU_dec(Machine, Arg(1)))
Inc == Dispatches("_inc") /\ Cycle("_inc", CPU_inc(Machine, Arg(1)))
Mul == Dispatches("_mul") /\ Cycle("_mul", CPU_mul(Machine, Arg(1), Arg(2)))

\* one pass of the while loop
Step ==
    \/ Hlt \/ Ld \/ Ldi \/ Nop \/ Pop \/ Prn \/ Push
    \/ Call_ \/ Jeq \/ Jge \/ Jgt \/ Jle \/ Jlt \/ Jmp \/ Jne \/ Ret
    \/ Add \/ And \/ Cmp \/ Dec \/ Inc \/ Mul
    \/ UnknownOpcode \/ OperandFault

Next == Load \/ Run \/ Step

Spec == Init /\ [][Next]_vars

\* A loaded machine is run, and the loop of CPU.run goes on to its next pass
\* while self.running holds and nothing was raised.
FairSpec == Spec /\ WF_vars(Run) /\ WF_vars(Step)

(***************************************************************************)
(* Vocabulary of the properties below.  hist[1] is the cycle that ran      *)
(* last, hist[2] the one before it; a cycle is recorded whether its        *)
(* handler returned or raised, and exc tells which.                        *)
(***************************************************************************)
\* the last k cycles are on record
Ran(k) == Len(hist) >= k

\* the first operand of the k-th last cycle
Opnd(k) == hist[k].args[1]

\* a register index as the properties name one
IsReg(r) == r \in 0..7

Byte == 0..255

\* a PC as the next fetch finds it
Wrapped(p) == IF p < 0 THEN 255 ELSE IF p > 255 THEN 0 ELSE p

\* PUSH then POP, both with register indices, the PUSH starting with SP in range
PushThenPop ==
    /\ Ran(2)
    /\ hist[2].h = "_push" /\ hist[1].h = "_pop"
    /\ IsReg(Opnd(2)) /\ IsReg(Opnd(1))
    /\ hist[2].reg[SP] \in Byte

(***************************************************************************)
(* C1 as claimed: for all r, r' in 0..7 and SP in 0..255, PUSH r then      *)
(* POP r' completes, leaves reg[r'] equal to the value reg[r] held before  *)
(* the PUSH, and leaves SP equal to its value before the PUSH.             *)
(***************************************************************************)
C1_PushPopAnyRegister ==
    PushThenPop =>
        /\ exc = ""
        /\ reg[Opnd(1)] = hist[2].reg[Opnd(2)]
        /\ reg[SP] = hist[2].reg[SP]

(***************************************************************************)
(* C1 amended: the same for r, r' in 0..6.  When r is register 7 and r' is *)
(* not, r' receives the SP the PUSH had already decremented; when r' is    *)
(* register 7, SP ends one above the popped value (clamped).               *)
(***************************************************************************)
C1_PushPopRestores ==
    PushThenPop =>
        /\ exc = ""
        /\ (Opnd(2) # SP /\ Opnd(1) # SP) =>
              /\ reg[Opnd(1)] = hist[2].reg[Opnd(2)]
              /\ reg[SP] = hist[2].reg[SP]
        /\ (Opnd(2) = SP /\ Opnd(1) # SP) =>
              /\ reg[Opnd(1)] = hist[1].reg[SP]
              /\ hist[1].reg[SP] = (IF hist[2].reg[SP] = 0 THEN 255 ELSE hist[2].reg[SP] - 1)
              /\ reg[SP] = hist[2].reg[SP]
        /\ (Opnd(1) = SP) =>
              reg[SP] = Wrapped(hist[1].ram[hist[1].reg[SP]] + 1)

\* PUSH R1 holding 5 with SP = 0, then POP R2: R2 = 5 and SP = 0 again
C1_Witness ==
    /\ PushThenPop
    /\ Opnd(2) = 1 /\ Opnd(1) = 2
    /\ hist[2].reg[SP] = 0 /\ hist[2].reg[1] = 5
    /\ exc = "" /\ reg[2] = 5 /\ reg[SP] = 0 /\ ram[255] = 5

\* INC r then DEC r on the same register, r holding a byte before the INC
IncThenDec ==
    /\ Ran(2)
    /\ hist[2].h = "_inc" /\ hist[1].h = "_dec"
    /\ IsReg(Opnd(2)) /\ Opnd(1) = Opnd(2)
    /\ hist[2].reg[Opnd(2)] \in Byte

(***************************************************************************)
(* C2 as claimed: for every r in 0..7 and every v in 0..255, INC r         *)
(* completes without a fatal error leaving a value in 0..255, and INC r    *)
(* then DEC r completes and leaves reg[r] = v, in 0..255.                  *)
(***************************************************************************)
C2_IncDecRestores ==
    /\ (Ran(1) /\ hist[1].h = "_inc" /\ IsReg(Opnd(1)) /\ hist[1].reg[Opnd(1)] \in Byte) =>
          /\ exc = ""
          /\ reg[Opnd(1)] \in Byte
    /\ IncThenDec =>
          /\ exc = ""
          /\ reg[Opnd(1)] = hist[2].reg[Opnd(2)]
          /\ reg[Opnd(1)] \in Byte

(***************************************************************************)
(* C2's case in the range where the code does complete: INC r then DEC r   *)
(* from a value in 0..6 (no claim rests on this; it locates the failure).  *)
(***************************************************************************)
C2_SmallValuesRestore ==
    (IncThenDec /\ hist[2].reg[Opnd(2)] \in 0..6) =>
        (exc = "" /\ reg[Opnd(1)] = hist[2].reg[Opnd(2)])

CondJumpNames == {"_jeq", "_jne", "_jgt", "_jlt", "_jge", "_jle"}

\* the relation each conditional jump is claimed to test
Rel(h, x, y) ==
    CASE h = "_jeq" -> x = y
      [] h = "_jne" -> x # y
      [] h = "_jgt" -> x > y
      [] h = "_jlt" -> x < y
      [] h = "_jge" -> x >= y
      [] h = "_jle" -> x <= y

\* the last cycle was a conditional jump on a register, after some CMP
JumpAfterCmp ==
    /\ Ran(1)
    /\ hist[1].h \in CondJumpNames
    /\ IsReg(Opnd(1))
    /\ cmpv # <<>>

(***************************************************************************)
(* C3: a conditional jump that runs after a CMP a,b (any instructions but  *)
(* CMP in between) completes, and leaves PC at reg[r] when its relation    *)
(* holds of the two values the CMP compared, and at its own address + 2    *)
(* when it does not (PC as the next fetch finds it).                       *)
(***************************************************************************)
C3_JumpIffRelation ==
    JumpAfterCmp =>
        /\ exc = ""
        /\ pc = IF Rel(hist[1].h, cmpv[1], cmpv[2])
                THEN Wrapped(hist[1].reg[Opnd(1)])
                ELSE Wrapped(hist[1].pc + 2)

\* JGE taken on equal values (1 and 1) although ADD changed R0 after the CMP
C3_Witness ==
    /\ JumpAfterCmp
    /\ hist[1].h = "_jge"
    /\ Ran(2) /\ hist[2].h = "_add"
    /\ cmpv = <<1, 1>> /\ reg[0] = 2 /\ reg[1] = 1
    /\ hist[1].reg[Opnd(1)] = 32
    /\ pc = 32 /\ exc = ""

\* the last cycle was a RET that matches a CALL: the newest pending CALL put
\* its return address in the slot SP points to, and the slot was not written
\* since
MatchingRet ==
    /\ Ran(1)
    /\ hist[1].h = "_ret"
    /\ hist[1].calls # <<>>
    /\ hist[1].calls[1].slot = hist[1].reg[SP]
    /\ hist[1].calls[1].ok

(***************************************************************************)
(* C4 as claimed: the RET matching a CALL executed at address a leaves PC  *)
(* at a + 2.                                                               *)
(***************************************************************************)
C4_RetToCallPlus2 ==
    MatchingRet => (exc = "" /\ pc = hist[1].calls[1].a + 2)

(***************************************************************************)
(* C4 amended: the RET matching a CALL executed at address a leaves PC at  *)
(* (a + 2) mod 256: a CALL at 254 is resumed at address 0.                 *)
(***************************************************************************)
C4_RetToCallPlus2Mod256 ==
    MatchingRet => (exc = "" /\ pc = (hist[1].calls[1].a + 2) % 256)

\* a nested CALL returned, then the outer RET resumes after the CALL at 40
C4_Witness ==
    /\ MatchingRet
    /\ Ran(2) /\ hist[2].h = "_ret"
    /\ hist[1].calls[1].a = 40
    /\ pc = 42 /\ exc = ""

\* the RET matching the CALL at 254 resumes at 0
C4_WitnessWrap ==
    /\ MatchingRet
    /\ hist[1].calls[1].a = 254
    /\ pc = 0 /\ exc = ""

\* LDI r,i then PRN r on the same register
LdiThenPrn ==
    /\ Ran(2)
    /\ hist[2].h = "_ldi" /\ hist[1].h = "_prn"
    /\ IsReg(Opnd(2)) /\ Opnd(1) = Opnd(2)
    /\ hist[2].args[2] \in Byte

(***************************************************************************)
(* C5: for every r in 0..7 and i in 0..255, LDI r,i then PRN r completes   *)
(* and the output of the two instructions is the one line i.               *)
(***************************************************************************)
C5_LdiPrnEmitsImmediate ==
    LdiThenPrn =>
        /\ exc = ""
        /\ hist[1].out = hist[2].out
        /\ out = Append(hist[2].out, hist[2].args[2])

\* LDI R7,255 then PRN R7 prints 255 and nothing else
C5_Witness ==
    /\ LdiThenPrn
    /\ Opnd(2) = SP /\ hist[2].args[2] = 255
    /\ out = <<255>> /\ exc = ""

\* LDI in the last three cells of memory, PRN at address 0
C5_WitnessWrap ==
    /\ LdiThenPrn
    /\ hist[2].pc = 253 /\ hist[1].pc = 0 /\ hist[2].args[2] = 7
    /\ out = <<0, 7>> /\ exc = ""

\* the last cycle fetched a byte that is no key of the dispatch table
FetchedUnknown == Ran(1) /\ ir \notin DOMAIN op_table

(***************************************************************************)
(* C6: a cycle that fetches a byte with no entry in the dispatch table (22 *)
(* opcodes) ends the run with an exception in that cycle: no handler runs, *)
(* registers, memory, flags, PC and output are as before the cycle, and no *)
(* further cycle can run.                                                  *)
(***************************************************************************)
C6_UnknownOpcodeIsFatal ==
    /\ Cardinality(DOMAIN op_table) = 22
    /\ FetchedUnknown =>
          /\ phase = "raised" /\ exc \in {"KeyError", "IndexError"}
          /\ hist[1].h \in {"KeyError", "operands"}
          /\ reg = hist[1].reg /\ ram = hist[1].ram /\ fl = hist[1].fl
          /\ pc = hist[1].pc /\ out = hist[1].out
          /\ ~ENABLED Step

\* the byte 255 fetched at address 3 after LDI R0,8: KeyError, R0 still 8
C6_Witness ==
    /\ FetchedUnknown
    /\ ir = 255 /\ pc = 3 /\ reg[0] = 8
    /\ exc = "KeyError" /\ phase = "raised"

\* memory as CPU.load leaves it for the hardcoded program
FallbackImage == [a \in 0..255 |-> IF a < Len(Fallback) THEN Fallback[a + 1] ELSE 0]

\* the hardcoded program halted as claimed
FallbackHalted ==
    /\ phase = "exited" /\ ~running /\ exc = ""
    /\ out = <<8>>
    /\ reg[0] = 8 /\ reg[SP] = 244 /\ pc = 5

(***************************************************************************)
(* C7: from the initial machine with the hardcoded program (130 0 8, 71 0, *)
(* 1) loaded, the run reaches Halted with output exactly 8, R0 = 8,        *)
(* SP = 0xF4 and PC = 5, and until then it printed nothing else.           *)
(***************************************************************************)
C7_FallbackPrints8AndHalts ==
    /\ [](ram = FallbackImage => out \in {<<>>, <<8>>})
    /\ (phase = "loaded" /\ ram = FallbackImage) ~> (ram = FallbackImage /\ FallbackHalted)

\* the hardcoded program halted: HLT fetched at 5 after PRN R0
C7_Witness ==
    /\ ram = FallbackImage /\ FallbackHalted
    /\ ir = _hlt /\ Ran(2) /\ hist[1].h = "_hlt" /\ hist[2].h = "_prn"

\* no cell of memory holds the HLT opcode
NoHltByte == \A a \in 0..255 : ram[a] # _hlt

\* the run is over, by the loop's exit or by an exception
Stopped == phase \in {"exited", "raised"}

(***************************************************************************)
(* C8 as claimed: with no HLT byte in memory the machine never stops,      *)
(* neither by halting nor by any other termination.                        *)
(***************************************************************************)
C8_NoHltNeverStops == NoHltByte => ~Stopped

(***************************************************************************)
(* C8 amended: the loop is left only by executing HLT or by an exception   *)
(* (a byte with no table entry, an operand fetch past the end of memory,   *)
(* an index out of range inside a handler); a machine with no HLT byte in  *)
(* memory never reaches Halted, and while the machine is Running another   *)
(* cycle always follows.                                                   *)
(***************************************************************************)
C8_StopsOnlyByHltOrFatal ==
    /\ phase = "exited" => (Ran(1) /\ hist[1].h = "_hlt" /\ ir = _hlt /\ ~running /\ exc = "")
    /\ phase = "raised" => (Ran(1) /\ exc \in {"KeyError", "IndexError"})
    /\ NoHltByte => phase # "exited"
    /\ phase = "loop" => (running /\ exc = "" /\ ENABLED Step)

\* a program of NOPs only has run past address 255 and is at address 1 again
C8_Witness ==
    /\ NoHltByte
    /\ phase = "loop"
    /\ Ran(2) /\ hist[2].pc = 255 /\ hist[2].h = "_nop" /\ hist[1].pc = 0 /\ pc = 1

\* a program without HLT stopped by the KeyError of the byte 255
C8_WitnessFatal ==
    /\ NoHltByte
    /\ phase = "raised" /\ exc = "KeyError" /\ ir = 255 /\ reg[0] = 8

\* the last cycle was INC or DEC of a register
IncOrDec == Ran(1) /\ hist[1].h \in {"_inc", "_dec"} /\ IsReg(Opnd(1))

(***************************************************************************)
(* C9 as claimed: INC r and DEC r complete with reg[r] in 0..255, INC of   *)
(* 255 giving 0 and DEC of 0 giving 255, and change no other register.     *)
(***************************************************************************)
C9_IncDecClamped ==
    IncOrDec =>
        /\ exc = "" => reg[Opnd(1)] \in Byte
        /\ (hist[1].h = "_inc" /\ hist[1].reg[Opnd(1)] = 255) => (exc = "" /\ reg[Opnd(1)] = 0)
        /\ (hist[1].h = "_dec" /\ hist[1].reg[Opnd(1)] = 0) => (exc = "" /\ reg[Opnd(1)] = 255)
        /\ exc = "" => \A q \in 0..7 : q # Opnd(1) => reg[q] = hist[1].reg[q]

\* the last cycle was a stack instruction (with a register index, if it has
\* an operand)
StackOp(names) ==
    /\ Ran(1)
    /\ hist[1].h \in names
    /\ hist[1].h \in {"_push", "_pop", "_call"} => IsReg(Opnd(1))

(***************************************************************************)
(* C10 as claimed: after PUSH, POP, CALL and RET, SP is in 0..255; PUSH or *)
(* CALL with SP = 0 completes, sets SP to 255 and writes memory[255]; POP  *)
(* or RET with SP = 255 completes, reads memory[255] and sets SP to 0.     *)
(***************************************************************************)
C10_StackWrapsSilently ==
    /\ (StackOp({"_push", "_pop", "_call", "_ret"}) /\ exc = "") => reg[SP] \in Byte
    /\ (StackOp({"_push", "_call"}) /\ hist[1].reg[SP] = 0) =>
          /\ exc = ""
          /\ reg[SP] = 255
          /\ \A a \in 0..254 : ram[a] = hist[1].ram[a]
          /\ hist[1].h = "_call" => ram[255] = hist[1].pc + 2
          /\ hist[1].h = "_push" =>
                ram[255] = (IF Opnd(1) = SP THEN 255 ELSE hist[1].reg[Opnd(1)])
    /\ (StackOp({"_pop", "_ret"}) /\ hist[1].reg[SP] = 255) =>
          /\ exc = ""
          /\ reg[SP] = 0
          /\ hist[1].h = "_ret" => pc = Wrapped(hist[1].ram[255])
          /\ (hist[1].h = "_pop" /\ Opnd(1) # SP) => reg[Opnd(1)] = hist[1].ram[255]

(***************************************************************************)
(* C10 amended: PUSH and CALL always complete; POP and RET complete unless *)
(* SP is outside -256..255 before them, and then raise IndexError; after   *)
(* each of the four that completes SP is in 0..255.  The wrap at SP = 0    *)
(* and SP = 255 is as claimed, except that POP into register 7 itself with *)
(* SP = 255 leaves SP one above the value read from memory[255] (clamped)  *)
(* instead of 0.                                                           *)
(***************************************************************************)
C10_StackWrapsSilentlyButPopSP ==
    /\ StackOp({"_push", "_call"}) => exc = ""
    /\ StackOp({"_pop", "_ret"}) =>
          /\ hist[1].reg[SP] \in -256..255 => exc = ""
          /\ hist[1].reg[SP] \notin -256..255 => exc = "IndexError"
    /\ (StackOp({"_push", "_pop", "_call", "_ret"}) /\ exc = "") => reg[SP] \in Byte
    /\ (StackOp({"_push", "_call"}) /\ hist[1].reg[SP] = 0) =>
          /\ exc = ""
          /\ reg[SP] = 255
          /\ \A a \in 0..254 : ram[a] = hist[1].ram[a]
          /\ hist[1].h = "_call" => ram[255] = hist[1].pc + 2
          /\ hist[1].h = "_push" =>
                ram[255] = (IF Opnd(1) = SP THEN 255 ELSE hist[1].reg[Opnd(1)])
    /\ (StackOp({"_pop", "_ret"}) /\ hist[1].reg[SP] = 255) =>
          /\ exc = ""
          /\ hist[1].h = "_ret" => (reg[SP] = 0 /\ pc = Wrapped(hist[1].ram[255]))
          /\ (hist[1].h = "_pop" /\ Opnd(1) # SP) =>
                (reg[SP] = 0 /\ reg[Opnd(1)] = hist[1].ram[255])
          /\ (hist[1].h = "_pop" /\ Opnd(1) = SP) =>
                reg[SP] = Wrapped(hist[1].ram[255] + 1)

\* CALL with SP = 0 wrote its return address to memory[255], and the RET
\* that followed at SP = 255 left SP = 0
C10_Witness ==
    /\ StackOp({"_ret"}) /\ hist[1].reg[SP] = 255
    /\ Ran(2) /\ hist[2].h = "_call" /\ hist[2].reg[SP] = 0
    /\ hist[1].ram[255] = hist[2].pc + 2
    /\ reg[SP] = 0 /\ exc = ""

\* POP with SP above 255 (ADD wrote register 7) raised IndexError
C10_WitnessBadSP ==
    /\ StackOp({"_pop", "_ret"}) /\ hist[1].reg[SP] > 255
    /\ exc = "IndexError" /\ reg[SP] = hist[1].reg[SP]

\* PUSH with SP = 0 wrote memory[255], and the POP R2 that followed read it
C10_WitnessPushPop ==
    /\ StackOp({"_pop"}) /\ hist[1].reg[SP] = 255 /\ Opnd(1) = 2
    /\ Ran(2) /\ hist[2].h = "_push" /\ hist[2].reg[SP] = 0
    /\ reg[2] = 5 /\ ram[255] = 5 /\ reg[SP] = 0 /\ exc = ""

\* the last cycle ran to its end (no exception)
Completed == Ran(1) /\ exc = ""

(***************************************************************************)
(* C11: at the top of every cycle PC is in 0..255, whatever ran before: a  *)
(* PC left below 0 by the cycle became 255, a PC left above 255 became 0,  *)
(* and a PC in 0..255 was kept.                                            *)
(***************************************************************************)
C11_PCInRangeAtFetch ==
    /\ phase \in {"loaded", "loop"} => pc \in Byte
    /\ Completed =>
          /\ rawpc < 0 => pc = 255
          /\ rawpc > 255 => pc = 0
          /\ rawpc \in Byte => pc = rawpc

\* JMP to a register holding -1: the next fetch is at 255
C11_Witness ==
    /\ Completed /\ phase = "loop"
    /\ hist[1].h = "_jmp" /\ hist[1].reg[Opnd(1)] = -1
    /\ rawpc = -1 /\ pc = 255

\* RET from a saved address of 510: the next fetch is at 0
C11_WitnessRet ==
    /\ Completed /\ phase = "loop"
    /\ hist[1].h = "_ret" /\ hist[1].ram[hist[1].reg[SP]] = 510
    /\ rawpc = 510 /\ pc = 0

(***************************************************************************)
(* C12 as claimed: every memory cell holds a value in 0..255 in every      *)
(* reachable state.                                                        *)
(***************************************************************************)
C12_MemoryCellsAreBytes == \A a \in 0..255 : ram[a] \in Byte

\* the handlers whose opcode has the PC-mutation bit clear, HLT left out, and
\* the operand count of each handler (the opcode table)
Sequential ==
    {"_ld", "_ldi", "_nop", "_pop", "_prn", "_push",
     "_add", "_and", "_cmp", "_dec", "_inc", "_mul"}

OperandCount(h) ==
    IF h \in {"_hlt", "_nop", "_ret"} THEN 0
    ELSE IF h \in {"_ld", "_ldi", "_add", "_and", "_cmp", "_mul"} THEN 2
    ELSE 1

\* the condition of jump h is satisfied by flags f
Satisfied(h, f) ==
    CASE h = "_jeq" -> f = 1
      [] h = "_jne" -> f # 1
      [] h = "_jgt" -> f = 2
      [] h = "_jlt" -> f = 4
      [] h = "_jge" -> f \in {1, 2}
      [] h = "_jle" -> f \in {1, 4}

(***************************************************************************)
(* C13: in a cycle that completes, PC before the clamp is: for a           *)
(* conditional jump at address a, reg[r] when its condition is satisfied   *)
(* and a + 2 when it is not; reg[r] for JMP and CALL; a + 1 + operand      *)
(* count for every instruction with the PC-mutation bit clear but HLT.     *)
(***************************************************************************)
C13_PCChangesOncePerCycle ==
    Completed =>
        /\ hist[1].h \in CondJumpNames =>
              rawpc = IF Satisfied(hist[1].h, hist[1].fl)
                      THEN reg[Opnd(1)] ELSE hist[1].pc + 2
        /\ hist[1].h \in {"_jmp", "_call"} => rawpc = reg[Opnd(1)]
        /\ hist[1].h \in Sequential =>
              rawpc = hist[1].pc + 1 + OperandCount(hist[1].h)

\* JNE at 17 not taken after CMP found its operands equal: PC = 19
C13_Witness ==
    /\ Completed
    /\ hist[1].h = "_jne" /\ hist[1].fl = 1 /\ hist[1].pc = 17
    /\ hist[1].reg[Opnd(1)] = 32
    /\ rawpc = 19 /\ pc = 19

\* JLE taken, and CALL through register 7 going to the decremented SP
C13_WitnessTaken ==
    /\ Completed
    /\ hist[1].h = "_jle" /\ hist[1].fl = 4 /\ rawpc = 32 /\ pc = 32

C13_WitnessCallSP ==
    /\ Completed
    /\ hist[1].h = "_call" /\ Opnd(1) = SP /\ rawpc = 243 /\ reg[SP] = 243

(***************************************************************************)
(* C14: HLT sets running to false and changes nothing else: PC stays at    *)
(* the address of the HLT, registers, memory, flags and output are as      *)
(* before, and no further cycle runs.                                      *)
(***************************************************************************)
C14_HltOnlyStops ==
    (Ran(1) /\ hist[1].h = "_hlt") =>
        /\ ~running /\ exc = "" /\ phase = "exited"
        /\ pc = hist[1].pc /\ ram[pc] = _hlt
        /\ reg = hist[1].reg /\ ram = hist[1].ram /\ fl = hist[1].fl
        /\ out = hist[1].out
        /\ ~ENABLED Next

\* HLT at 40, reached by a jump while the Greater-than flag is set
C14_Witness ==
    /\ Ran(2) /\ hist[1].h = "_hlt" /\ hist[2].h = "_jne"
    /\ pc = 40 /\ fl = 2 /\ ~running /\ phase = "exited"

(***************************************************************************)
(* C15: the flags are changed by CMP only: a cycle of any other            *)
(* instruction, whether it completes or raises, leaves the flags as they   *)
(* were, so that a CMP's result stays until the next CMP.                  *)
(***************************************************************************)
C15_FlagsChangedOnlyByCmp ==
    (Ran(1) /\ hist[1].h # "_cmp") => fl = hist[1].fl

\* AND giving 0 right after a CMP set the Less-than flag: the flag is still set
C15_Witness ==
    /\ Ran(2) /\ hist[2].h = "_cmp" /\ hist[1].h = "_and"
    /\ exc = "" /\ reg[2] = 0 /\ hist[2].fl = 0 /\ hist[1].fl = 4 /\ fl = 4

\* the last cycle was CMP of two registers
CmpOfRegisters ==
    /\ Ran(1) /\ hist[1].h = "_cmp"
    /\ IsReg(hist[1].args[1]) /\ IsReg(hist[1].args[2])

\* the flags CMP is claimed to leave for the values x and y
FlagFor(x, y) == IF x = y THEN 1 ELSE IF x < y THEN 4 ELSE 2

(***************************************************************************)
(* C16 as claimed: CMP completes and leaves exactly the flag of its        *)
(* result (Equal 1, Less-than 4, Greater-than 2); in every reachable state *)
(* the flags are 0, 1, 2 or 4, and 0 only while no CMP has completed.      *)
(***************************************************************************)
C16_ExactlyOneFlag ==
    /\ CmpOfRegisters =>
          /\ exc = ""
          /\ fl = FlagFor(hist[1].reg[hist[1].args[1]], hist[1].reg[hist[1].args[2]])
    /\ fl \in {0, 1, 2, 4}
    /\ fl = 0 => cmpv = <<>>

\* the last cycle was a CMP that raised on an operand that is no register index
CmpRaised ==
    /\ Ran(1) /\ hist[1].h = "_cmp"
    /\ ~(IsReg(hist[1].args[1]) /\ IsReg(hist[1].args[2]))
    /\ exc = "IndexError" /\ phase = "raised"

(***************************************************************************)
(* C16 amended: the same, but the flags are 0 also in the state a CMP      *)
(* leaves when one of its operands is no register index: it has cleared    *)
(* the flag bits when reading the register raises IndexError.              *)
(***************************************************************************)
C16_ExactlyOneFlagUnlessCmpRaised ==
    /\ CmpOfRegisters =>
          /\ exc = ""
          /\ fl = FlagFor(hist[1].reg[hist[1].args[1]], hist[1].reg[hist[1].args[2]])
    /\ fl \in {0, 1, 2, 4}
    /\ fl = 0 => (cmpv = <<>> \/ CmpRaised)
    /\ CmpRaised => fl = 0

\* a second CMP replaced the Equal flag of the first by Greater-than
C16_Witness ==
    /\ CmpOfRegisters /\ exc = ""
    /\ hist[1].fl = 1 /\ fl = 2 /\ cmpv = <<1, 0>>

\* CMP 8,0 after a CMP that had set a flag: flags 0, IndexError
C16_WitnessRaised ==
    /\ CmpRaised /\ hist[1].args = <<8, 0>>
    /\ hist[1].fl = 2 /\ fl = 0 /\ cmpv # <<>>

\* bit k of x
Bit(x, k) == (x \div (2 ^ k)) % 2

\* z is the bitwise AND of x and y (for values below 2^21)
IsAndOf(z, x, y) ==
    /\ z \in 0..(2 ^ 21 - 1)
    /\ \A k \in 0..20 : Bit(z, k) = Bit(x, k) * Bit(y, k)

\* the last cycle was ADD, MUL, AND or LDI with register indices
AluOrLdi ==
    /\ Ran(1) /\ hist[1].h \in {"_add", "_mul", "_and", "_ldi"}
    /\ IsReg(hist[1].args[1])
    /\ hist[1].h # "_ldi" => IsReg(hist[1].args[2])

(***************************************************************************)
(* C17: ADD, MUL, AND and LDI complete and write the exact result into the *)
(* destination register, unmasked, and into no other register: after       *)
(* ADD a,b reg[a] is the sum and after MUL a,b the product of the old      *)
(* reg[a] and reg[b], also above 255.                                      *)
(***************************************************************************)
C17_AluResultsUnmasked ==
    AluOrLdi =>
        LET a == hist[1].args[1]
            b == hist[1].args[2]
            old == hist[1].reg
        IN  /\ exc = ""
            /\ \A q \in 0..7 : q # a => reg[q] = old[q]
            /\ hist[1].h = "_add" => reg[a] = old[a] + old[b]
            /\ hist[1].h = "_mul" => reg[a] = old[a] * old[b]
            /\ hist[1].h = "_ldi" => reg[a] = b
            /\ hist[1].h = "_and" =>
                  ((old[a] \in 0..(2 ^ 21 - 1) /\ old[b] \in 0..(2 ^ 21 - 1))
                      => IsAndOf(reg[a], old[a], old[b]))

\* ADD R0,R1 with 255 in both leaves 510 in R0
C17_Witness ==
    /\ AluOrLdi /\ hist[1].h = "_add" /\ hist[1].args = <<0, 1>>
    /\ hist[1].reg[0] = 255 /\ hist[1].reg[1] = 255
    /\ reg[0] = 510 /\ reg[1] = 255 /\ exc = ""

\* MUL R0,R0 with 510 in R0 leaves 260100; AND of 510 and 255 leaves 254
C17_WitnessMul ==
    /\ AluOrLdi /\ hist[1].h = "_mul" /\ hist[1].reg[0] = 510 /\ reg[0] = 260100

C17_WitnessAnd ==
    /\ AluOrLdi /\ hist[1].h = "_and" /\ hist[1].reg[0] = 510 /\ hist[1].reg[1] = 255
    /\ hist[1].args = <<0, 1>> /\ reg[0] = 254

(***************************************************************************)
(* C18 as claimed: every memory access of a cycle uses an address in       *)
(* 0..255 and no cycle fails on one: the fetch at PC, the operand fetches  *)
(* at PC + 1 and PC + 2, the read of LD at reg[rb], and the stack accesses *)
(* at SP by PUSH, POP, CALL and RET.                                       *)
(***************************************************************************)
C18_MemoryAccessInRange ==
    Ran(1) =>
        /\ hist[1].pc \in Byte
        /\ hist[1].h # "operands"
        /\ \A i \in 1..Len(hist[1].args) : hist[1].pc + i \in Byte
        /\ (hist[1].h = "_ld" /\ IsReg(hist[1].args[1]) /\ IsReg(hist[1].args[2])) =>
              (hist[1].reg[hist[1].args[2]] \in Byte /\ exc = "")
        /\ StackOp({"_pop", "_ret"}) => (hist[1].reg[SP] \in Byte /\ exc = "")
        /\ StackOp({"_push", "_call"}) => (reg[SP] \in Byte /\ exc = "")

\* the last cycle completed without taking a jump and another fetch follows
SequentialStep ==
    /\ Completed /\ phase = "loop"
    /\ \/ hist[1].h \in Sequential
       \/ hist[1].h \in CondJumpNames /\ ~Satisfied(hist[1].h, hist[1].fl)

(***************************************************************************)
(* C19: after an instruction at address a that completes without taking a  *)
(* jump, the next fetch is at (a + 1 + operand count) mod 256.             *)
(***************************************************************************)
C19_SequentialAdvanceIsModular ==
    SequentialStep => pc = (hist[1].pc + 1 + OperandCount(hist[1].h)) % 256

\* JNE at 254 not taken: the next fetch is at 0
C19_Witness ==
    /\ SequentialStep
    /\ hist[1].h = "_jne" /\ hist[1].pc = 254 /\ rawpc = 256 /\ pc = 0

\* ADD at 253 and NOP at 255: the next fetch is at 0
C19_WitnessAdd ==
    /\ SequentialStep /\ hist[1].h = "_add" /\ hist[1].pc = 253 /\ pc = 0

C19_WitnessNop ==
    /\ SequentialStep /\ hist[1].h = "_nop" /\ hist[1].pc = 255 /\ pc = 0

====
